---------------------------- MODULE Spec2Model ----------------------------
(***************************************************************************)
(* read_aod_and_calculate_pm25.py: the script opens fileList.txt and, for  *)
(* every line of it, reads MODIS AOD, reports statistics, converts to      *)
(* PM2.5, classifies into AQI categories and optionally maps and saves the *)
(* result.                                                                 *)
(*                                                                         *)
(* Representation.                                                         *)
(*  - A Python str is a sequence of one-character strings; the characters  *)
(*    are the code points below 256.                                       *)
(*  - A Python int is an integer.  Raw SDS values and the valid range are  *)
(*    ints.                                                                *)
(*  - A Python float or numpy float64 is an IEEE 754 binary64 value:       *)
(*    [cls, neg, m, e] stands for (-1)^neg * m * 2^e, for an infinity or   *)
(*    for NaN.  m is a natural number written as its limbs in base 2^14,   *)
(*    least significant first.  Every operation rounds to nearest, ties    *)
(*    to even, as the hardware does.                                       *)
(*  - A 2-D array is a sequence of rows.                                   *)
(*  - The position in the script is pc.  An uncaught exception ends the    *)
(*    run in pc = "crashed" with the exception's name in error; sys.exit() *)
(*    ends it in pc = "exited".                                            *)
(*  - The names the script binds keep their values from one line of the    *)
(*    list to the next, as Python names do.  console, printed, hits and    *)
(*    written are not names of the script: they record what has happened   *)
(*    while handling the current line.                                     *)
(***************************************************************************)
EXTENDS Integers, Sequences, FiniteSets

VARIABLES
    fileListTxt,   \* fileList.txt on disk: whether it exists, and its lines
    fileList,      \* the lines the open file yields
    idx,           \* how many lines the for loop has taken
    pc,            \* position in the script
    error,         \* name of the uncaught exception, "" if none
    FILE_NAME, user_input, SDS_NAME, hdf, sds,
    scale_factor, min_range, max_range,
    data, valid_data, average, stdev,
    slope, intercept, pm25,
    is_map, is_save,
    console,       \* prompts answered while handling the current line
    printed,       \* messages printed while handling the current line
    hits,          \* per cell, which masked assignments of lines 133-139 wrote it
    pngFiles,      \* names of the image files written so far
    written        \* image files written while handling the current line

vars == <<fileListTxt, fileList, idx, pc, error, FILE_NAME, user_input,
          SDS_NAME, hdf, sds, scale_factor, min_range, max_range, data,
          valid_data, average, stdev, slope, intercept, pm25, is_map, is_save,
          console, printed, hits, pngFiles, written>>

---------------------------------------------------------------------------
(* Bounds of the checked instances *)

MaxFiles == 2
MaxNameLen == 4
MaxCells == 3
MaxPMCells == 2

---------------------------------------------------------------------------
(* Strings *)

\* str.isspace() for the code points below 256: 0x09-0x0d, 0x1c-0x1f, 0x20,
\* 0x85, 0xa0
Whitespace == {"\t", "\n", "", "\f", "\r", "", "", "", "", " ", "", " "}

\* what float() strips: the ASCII whitespace 0x09-0x0d and 0x20, and the
\* whitespace above 0x7f, which it first turns into spaces
FloatSpace == {"\t", "\n", "", "\f", "\r", " ", "", " "}

Min(S) == CHOOSE x \in S : \A y \in S : x <= y
Max(S) == CHOOSE x \in S : \A y \in S : x >= y

\* s without its leading and trailing characters of W
StripOf(s, W) ==
    LET keep == {i \in 1..Len(s) : s[i] \notin W}
    IN  IF keep = {} THEN <<>> ELSE SubSeq(s, Min(keep), Max(keep))

\* str.strip(): leading and trailing whitespace removed
Strip(s) == StripOf(s, Whitespace)

\* sub in s
Contains(s, sub) ==
    \E i \in 1..(Len(s) - Len(sub) + 1) : SubSeq(s, i, i + Len(sub) - 1) = sub

\* s[:-4]
DropLast4(s) == SubSeq(s, 1, Len(s) - 4)

\* lines 167 and 177 with the slice one character short
PngName_DropLast3(name) == SubSeq(name, 1, Len(name) - 3) \o <<".", "p", "n", "g">>

\* lines 167 and 177: '{0}.png'.format(FILE_NAME[:-4])
PngName(name) == DropLast4(name) \o <<".", "p", "n", "g">>

---------------------------------------------------------------------------
(* Names *)

Unbound == "<unbound>"

ODLAO == "Optical_Depth_Land_And_Ocean"
AOD550 == "AOD_550_Dark_Target_Deep_Blue_Combined"
AODNames == {ODLAO, AOD550}
SDSNames == {"Latitude", "Longitude"} \cup AODNames

\* lines 51-59 with the two tests in the other order
ResolveSDSName_L2First(name) ==
    IF Contains(name, <<"L", "2">>) THEN AOD550
    ELSE IF Contains(name, <<"3", "K">>) THEN ODLAO
    ELSE ""

\* lines 51-59: the SDS name chosen from the file name, "" when the name
\* matches neither pattern
ResolveSDSName(name) ==
    IF Contains(name, <<"3", "K">>) THEN ODLAO
    ELSE IF Contains(name, <<"L", "2">>) THEN AOD550
    ELSE ""

Name3K == <<"M","O","D","0","4","_","3","K",".","A","2","0","2","0","0","0","1",".","h","d","f">>
NameL2 == <<"M","Y","D","0","4","_","L","2",".","A","2","0","2","0","0","0","1",".","h","d","f">>
NameOther == <<"o","t","h","e","r",".","h","d","f">>

\* a line as the open file yields it
Line(name) == name \o <<"\n">>

\* a line with a tab before and after the name
TabbedLine(name) == <<"\t">> \o name \o <<"\t", "\n">>

---------------------------------------------------------------------------
(* Answers typed at the prompts *)

Answers == {<<"Y">>, <<"y">>, <<"N">>, <<"n">>, <<>>, <<"y", "e", "s">>}

\* line 48: user_input == 'N' or user_input == 'n'
IsNo(a) == a = <<"N">> \/ a = <<"n">>

\* the test of lines 114, 129, 175 on the first letter only
IsYes_FirstLetter(a) == a # <<>> /\ a[1] \in {"Y", "y"}

\* lines 114, 129, 175: x == 'Y' or x == 'y'
IsYes(a) == a = <<"Y">> \/ a = <<"y">>

---------------------------------------------------------------------------
(* Natural numbers of any size, for the significands of floats: limbs in
   base 2^14, least significant first, no leading zero limb; zero is <<>>.
   The operators split their argument in halves and take the half the other
   depends on first. *)

LimbBits == 14
Base == 2^LimbBits

\* the limbs of an integer 0 <= n < 2^31
BigOf(n) == IF n = 0 THEN <<>>
            ELSE IF n < Base THEN <<n>>
            ELSE IF n < Base * Base THEN <<n % Base, n \div Base>>
            ELSE <<n % Base, (n \div Base) % Base, n \div (Base * Base)>>

BigNorm(a) ==
    LET nz == {i \in 1..Len(a) : a[i] # 0}
    IN  IF nz = {} THEN <<>>
        ELSE SubSeq(a, 1, CHOOSE i \in nz : \A j \in nz : j <= i)

Pad(a, n) == a \o [i \in 1..(n - Len(a)) |-> 0]

\* a + b + c for equally long a and b: the limbs of the sum and the carry out
RECURSIVE AddCarry(_, _, _)
AddCarry(a, b, c) ==
    IF Len(a) = 1
    THEN [s |-> <<(a[1] + b[1] + c) % Base>>, c |-> (a[1] + b[1] + c) \div Base]
    ELSE LET h == Len(a) \div 2
             lo == AddCarry(SubSeq(a, 1, h), SubSeq(b, 1, h), c)
             hi == AddCarry(SubSeq(a, h + 1, Len(a)), SubSeq(b, h + 1, Len(b)), lo.c)
         IN  [s |-> lo.s \o hi.s, c |-> hi.c]

\* the limbs r.s with the carry r.c on top
WithCarry(r) == IF r.c = 0 THEN r.s ELSE Append(r.s, r.c)

BigAdd(a, b) ==
    IF a = <<>> THEN b
    ELSE IF Len(a) < Len(b) THEN WithCarry(AddCarry(Pad(a, Len(b)), b, 0))
    ELSE WithCarry(AddCarry(a, Pad(b, Len(a)), 0))

\* a - b - c for equally long a and b: the limbs of the difference and the borrow
RECURSIVE SubBorrow(_, _, _)
SubBorrow(a, b, c) ==
    IF Len(a) = 1
    THEN [s |-> <<(a[1] - b[1] - c) % Base>>, c |-> IF a[1] - b[1] - c < 0 THEN 1 ELSE 0]
    ELSE LET h == Len(a) \div 2
             lo == SubBorrow(SubSeq(a, 1, h), SubSeq(b, 1, h), c)
             hi == SubBorrow(SubSeq(a, h + 1, Len(a)), SubSeq(b, h + 1, Len(b)), lo.c)
         IN  [s |-> lo.s \o hi.s, c |-> hi.c]

\* a - b for a >= b
BigSub(a, b) ==
    IF a = <<>> THEN <<>> ELSE BigNorm(SubBorrow(a, Pad(b, Len(a)), 0).s)

\* -1, 0, 1 as a < b, a = b, a > b
BigCmp(a, b) ==
    LET d == {i \in 1..Len(a) : a[i] # b[i]}
        top == CHOOSE i \in d : \A j \in d : j <= i
    IN  IF Len(a) < Len(b) THEN 0 - 1
        ELSE IF Len(a) > Len(b) THEN 1
        ELSE IF d = {} THEN 0
        ELSE IF a[top] < b[top] THEN 0 - 1 ELSE 1

\* a * k + c for 0 <= k, c <= Base: the limbs of the product and the carry out
RECURSIVE MulCarry(_, _, _)
MulCarry(a, k, c) ==
    IF Len(a) = 1
    THEN [s |-> <<(a[1] * k + c) % Base>>, c |-> (a[1] * k + c) \div Base]
    ELSE LET h == Len(a) \div 2
             lo == MulCarry(SubSeq(a, 1, h), k, c)
             hi == MulCarry(SubSeq(a, h + 1, Len(a)), k, lo.c)
         IN  [s |-> lo.s \o hi.s, c |-> hi.c]

\* a * k for 0 <= k <= Base
BigMulSmall(a, k) ==
    IF a = <<>> \/ k = 0 THEN <<>> ELSE WithCarry(MulCarry(a, k, 0))

\* a * Base^n
BigShiftLimbs(a, n) == IF a = <<>> THEN <<>> ELSE [i \in 1..n |-> 0] \o a

RECURSIVE BigMul(_, _)
BigMul(a, b) ==
    IF a = <<>> \/ b = <<>> THEN <<>>
    ELSE IF Len(b) = 1 THEN BigMulSmall(a, b[1])
    ELSE LET h == Len(b) \div 2
         IN  BigAdd(BigMul(a, BigNorm(SubSeq(b, 1, h))),
                    BigShiftLimbs(BigMul(a, SubSeq(b, h + 1, Len(b))), h))

\* (r * Base^Len(a) + a) div k and mod k, for 0 <= r < k <= Base
RECURSIVE DivRem(_, _, _)
DivRem(a, k, r) ==
    IF Len(a) = 1
    THEN [q |-> <<(r * Base + a[1]) \div k>>, r |-> (r * Base + a[1]) % k]
    ELSE LET h == Len(a) \div 2
             hi == DivRem(SubSeq(a, h + 1, Len(a)), k, r)
             lo == DivRem(SubSeq(a, 1, h), k, hi.r)
         IN  IF hi.r < k THEN [q |-> lo.q \o hi.q, r |-> lo.r] ELSE hi

\* a div k and a mod k, for 1 <= k <= Base
BigDivSmall(a, k) ==
    IF a = <<>> THEN [q |-> <<>>, r |-> 0]
    ELSE [DivRem(a, k, 0) EXCEPT !.q = BigNorm(@)]

\* a * 2^n
BigShiftLeft(a, n) ==
    BigShiftLimbs(BigMulSmall(a, 2^(n % LimbBits)), n \div LimbBits)

\* a div 2^n: q.q is the quotient, and a mod 2^n # 0 iff q.r # 0 or low
BigShiftRight(a, n) ==
    [q |-> BigDivSmall(SubSeq(a, n \div LimbBits + 1, Len(a)), 2^(n % LimbBits)),
     low |-> \E i \in 1..(n \div LimbBits) : i <= Len(a) /\ a[i] # 0]

RECURSIVE BitLenSmall(_)
BitLenSmall(n) == IF n = 0 THEN 0 ELSE 1 + BitLenSmall(n \div 2)

\* the number of bits of a
BitLen(a) == IF a = <<>> THEN 0 ELSE LimbBits * (Len(a) - 1) + BitLenSmall(a[Len(a)])

BigOdd(a) == a # <<>> /\ a[1] % 2 = 1

\* 10^k
RECURSIVE Pow10(_)
Pow10(k) ==
    IF k < 4 THEN <<10^k>>
    ELSE IF k % 2 = 0 THEN BigMul(Pow10(k \div 2), Pow10(k \div 2))
    ELSE BigMulSmall(BigMul(Pow10(k \div 2), Pow10(k \div 2)), 10)

\* n div 10^k, and whether n mod 10^k # 0
RECURSIVE DivPow10(_, _)
DivPow10(n, k) ==
    IF k < 4 THEN [q |-> BigDivSmall(n, 10^k).q, lost |-> BigDivSmall(n, 10^k).r # 0]
    ELSE LET a == DivPow10(n, k \div 2)
             b == DivPow10(a.q, k - k \div 2)
         IN  IF a.q = <<>> THEN a ELSE [q |-> b.q, lost |-> a.lost \/ b.lost]

---------------------------------------------------------------------------
(* float and numpy.float64: IEEE 754 binary64, round to nearest, ties to
   even.  A finite value is (-1)^neg * m * 2^e, where m has 53 bits, or
   fewer and e = -1074; m = <<>> and e = -1074 for zero. *)

Precision == 53
MinExponent == 0 - 1074
MaxExponent == 971

NaN == [cls |-> "nan", neg |-> FALSE, m |-> <<>>, e |-> 0]
Inf(neg) == [cls |-> "inf", neg |-> neg, m |-> <<>>, e |-> 0]
Num(neg, m, e) == [cls |-> "num", neg |-> neg, m |-> m, e |-> e]
Zero(neg) == Num(neg, <<>>, MinExponent)

IsNaN(x) == x.cls = "nan"
IsInf(x) == x.cls = "inf"
IsZero(x) == x.cls = "num" /\ x.m = <<>>

\* m * 2^e for m <= 2^53 and e >= -1074: 2^53 is written 2^52 * 2, and what
\* lies above the largest float is an infinity
Fit(neg, m, e) ==
    IF m = <<>> THEN Zero(neg)
    ELSE IF BitLen(m) > Precision
         THEN (IF e + 1 > MaxExponent THEN Inf(neg)
               ELSE Num(neg, BigDivSmall(m, 2).q, e + 1))
         ELSE (IF e > MaxExponent THEN Inf(neg) ELSE Num(neg, m, e))

\* (h.q + h.r / 2 + something smaller iff below) * 2^e to the nearest
\* integer times 2^e, a tie to the even one
Nearest(neg, h, below, e) ==
    Fit(neg, IF h.r = 1 /\ (below \/ BigOdd(h.q)) THEN BigAdd(h.q, <<1>>) ELSE h.q, e)

\* the float nearest to (n + d) * 2^e, where 0 <= d < 1 and d > 0 iff
\* sticky; n has 55 bits or more when sticky.  et is the exponent of the
\* result's last place, s is n cut one bit below it.
Round(neg, n, e, sticky) ==
    LET et == IF e + BitLen(n) - Precision < MinExponent THEN MinExponent
              ELSE e + BitLen(n) - Precision
        s == BigShiftRight(n, et - e - 1)
    IN  IF n = <<>> THEN Zero(neg)
        ELSE IF et <= e THEN Fit(neg, BigShiftLeft(n, e - et), et)
        ELSE Nearest(neg, BigDivSmall(s.q.q, 2), s.q.r # 0 \/ s.low \/ sticky, et)

\* int to float, for 0 < |n| < 2^31 and for 0
FromInt(n) ==
    LET m == BigOf(IF n < 0 THEN 0 - n ELSE n)
    IN  IF n = 0 THEN Zero(FALSE)
        ELSE Num(n < 0, BigShiftLeft(m, Precision - BitLen(m)), BitLen(m) - Precision)

Neg(x) == IF IsNaN(x) THEN x ELSE [x EXCEPT !.neg = ~x.neg]

\* the position of the leading bit of a finite x # 0
Top(x) == BitLen(x.m) + x.e

\* x * y
FMul(x, y) ==
    IF IsNaN(x) \/ IsNaN(y) THEN NaN
    ELSE IF (IsInf(x) /\ IsZero(y)) \/ (IsZero(x) /\ IsInf(y)) THEN NaN
    ELSE IF IsInf(x) \/ IsInf(y) THEN Inf(x.neg # y.neg)
    ELSE Round(x.neg # y.neg, BigMul(x.m, y.m), x.e + y.e, FALSE)

\* x + y
FAdd(x, y) ==
    IF IsNaN(x) \/ IsNaN(y) THEN NaN
    ELSE IF IsInf(x) /\ IsInf(y) THEN (IF x.neg = y.neg THEN x ELSE NaN)
    ELSE IF IsInf(x) THEN x
    ELSE IF IsInf(y) THEN y
    ELSE IF IsZero(x) /\ IsZero(y) THEN Zero(x.neg /\ y.neg)
    ELSE IF IsZero(x) THEN y
    ELSE IF IsZero(y) THEN x
    \* the smaller one lies below half a unit in the last place of the larger
    ELSE IF Top(x) - Top(y) > Precision + 2 THEN x
    ELSE IF Top(y) - Top(x) > Precision + 2 THEN y
    \* the significands at the smaller exponent; opposite numbers add to +0
    ELSE LET e == IF x.e < y.e THEN x.e ELSE y.e
             a == BigShiftLeft(x.m, x.e - e)
             b == BigShiftLeft(y.m, y.e - e)
             c == BigCmp(a, b)
         IN  Round(IF x.neg = y.neg \/ c > 0 THEN x.neg ELSE IF c < 0 THEN y.neg ELSE FALSE,
                   IF x.neg = y.neg THEN BigAdd(a, b)
                   ELSE IF c > 0 THEN BigSub(a, b) ELSE BigSub(b, a),
                   e, FALSE)

\* x - y
FSub(x, y) == FAdd(x, Neg(y))

\* the first k bits of r / d after the binary point, as a number, and the
\* remainder; r < d
RECURSIVE DivBits(_, _, _)
DivBits(r, d, k) ==
    IF k = 1
    THEN IF BigCmp(BigMulSmall(r, 2), d) >= 0
         THEN [q |-> <<1>>, r |-> BigSub(BigMulSmall(r, 2), d)]
         ELSE [q |-> <<>>, r |-> BigMulSmall(r, 2)]
    ELSE LET h == k \div 2
             hi == DivBits(r, d, h)
             lo == DivBits(hi.r, d, k - h)
         IN  IF hi.r = <<>> THEN [q |-> BigShiftLeft(hi.q, k - h), r |-> <<>>]
             ELSE [q |-> BigAdd(BigShiftLeft(hi.q, k - h), lo.q), r |-> lo.r]

\* x / y
FDiv(x, y) ==
    IF IsNaN(x) \/ IsNaN(y) THEN NaN
    ELSE IF IsInf(x) THEN (IF IsInf(y) THEN NaN ELSE Inf(x.neg # y.neg))
    ELSE IF IsInf(y) THEN Zero(x.neg # y.neg)
    ELSE IF IsZero(y) THEN (IF IsZero(x) THEN NaN ELSE Inf(x.neg # y.neg))
    ELSE IF IsZero(x) THEN Zero(x.neg # y.neg)
    \* both significands brought to 53 bits, 55 bits of quotient after the
    \* leading one
    ELSE LET sx == Precision - BitLen(x.m)
             sy == Precision - BitLen(y.m)
             a == BigShiftLeft(x.m, sx)
             b == BigShiftLeft(y.m, sy)
             ge == BigCmp(a, b) >= 0
             d == DivBits(IF ge THEN BigSub(a, b) ELSE a, b, Precision + 2)
         IN  Round(x.neg # y.neg,
                   IF ge THEN BigAdd(BigShiftLeft(<<1>>, Precision + 2), d.q) ELSE d.q,
                   (x.e - sx) - (y.e - sy) - (Precision + 2),
                   d.r # <<>>)

\* k steps of the digit-by-digit square root: n is what is left of the
\* radicand, res the root so far, bit the power of four being tried
RECURSIVE SqrtSteps(_, _)
SqrtSteps(s, k) ==
    IF k = 1
    THEN IF BigCmp(s.n, BigAdd(s.res, s.bit)) >= 0
         THEN [n |-> BigSub(s.n, BigAdd(s.res, s.bit)),
               res |-> BigAdd(BigDivSmall(s.res, 2).q, s.bit),
               bit |-> BigDivSmall(s.bit, 4).q]
         ELSE [n |-> s.n,
               res |-> BigDivSmall(s.res, 2).q,
               bit |-> BigDivSmall(s.bit, 4).q]
    ELSE LET half == SqrtSteps(s, k \div 2)
         IN  IF half.bit = <<>> THEN half ELSE SqrtSteps(half, k - k \div 2)

\* sqrt(x): the significand shifted left to 110 bits or more and an even
\* exponent, then the integer square root
FSqrt(x) ==
    IF IsNaN(x) THEN NaN
    ELSE IF IsZero(x) THEN x
    ELSE IF x.neg THEN NaN
    ELSE IF IsInf(x) THEN x
    ELSE LET k0 == 2 * Precision + 4 - BitLen(x.m)
             k == IF (x.e - k0) % 2 = 0 THEN k0 ELSE k0 + 1
             n == BigShiftLeft(x.m, k)
             steps == (BitLen(x.m) + k - 1) \div 2 + 1
             r == SqrtSteps([n |-> n, res |-> <<>>,
                             bit |-> BigShiftLeft(<<1>>, 2 * (steps - 1))], steps)
         IN  Round(FALSE, r.res, (x.e - k) \div 2, r.n # <<>>)

\* -1, 0, 1 as x < y, x = y, x > y, for x and y not NaN.  Of two finite
\* numbers of one sign the one with the larger exponent, or with the larger
\* significand at the same exponent, is the larger in magnitude.
Cmp(x, y) ==
    LET sx == IF IsZero(x) THEN 0 ELSE IF x.neg THEN 0 - 1 ELSE 1
        sy == IF IsZero(y) THEN 0 ELSE IF y.neg THEN 0 - 1 ELSE 1
    IN  IF sx # sy THEN (IF sx < sy THEN 0 - 1 ELSE 1)
        ELSE IF sx = 0 THEN 0
        ELSE IF IsInf(x) THEN (IF IsInf(y) THEN 0 ELSE sx)
        ELSE IF IsInf(y) THEN 0 - sx
        ELSE IF x.e # y.e THEN (IF x.e < y.e THEN 0 - sx ELSE sx)
        ELSE sx * BigCmp(x.m, y.m)

GE(x, c) == ~IsNaN(x) /\ ~IsNaN(c) /\ Cmp(x, c) >= 0
GT(x, c) == ~IsNaN(x) /\ ~IsNaN(c) /\ Cmp(x, c) > 0
LE(x, c) == ~IsNaN(x) /\ ~IsNaN(c) /\ Cmp(x, c) <= 0
LT(x, c) == ~IsNaN(x) /\ ~IsNaN(c) /\ Cmp(x, c) < 0

\* the float nearest to n * 10^e10: what a decimal literal or float(str)
\* gives.  For e10 < 0, n * 2^k is divided by 10^-e10, k chosen so that the
\* quotient has 56 bits or more.
FromDecimal(neg, n, e10) ==
    LET k == Precision + 3 + 4 * (0 - e10)
        d == IF e10 >= 0 THEN [q |-> BigMul(n, Pow10(e10)), lost |-> FALSE]
             ELSE DivPow10(BigShiftLeft(n, k), 0 - e10)
    IN  IF n = <<>> THEN Zero(neg)
        ELSE IF e10 > 310 THEN Inf(neg)
        ELSE IF e10 < 0 - (340 + BitLen(n)) THEN Zero(neg)
        ELSE Round(neg, d.q, IF e10 >= 0 THEN 0 ELSE 0 - k, d.lost)

---------------------------------------------------------------------------
(* float(str) *)

Digits == {"0", "1", "2", "3", "4", "5", "6", "7", "8", "9"}
DigitVal(c) ==
    CASE c = "0" -> 0 [] c = "1" -> 1 [] c = "2" -> 2 [] c = "3" -> 3
      [] c = "4" -> 4 [] c = "5" -> 5 [] c = "6" -> 6 [] c = "7" -> 7
      [] c = "8" -> 8 [] c = "9" -> 9

\* the value of a few digits
RECURSIVE DigitsValue(_)
DigitsValue(s) ==
    IF s = <<>> THEN 0
    ELSE 10 * DigitsValue(SubSeq(s, 1, Len(s) - 1)) + DigitVal(s[Len(s)])

\* the value of a digit string of any length
RECURSIVE BigFromDigits(_)
BigFromDigits(s) ==
    IF Len(s) <= 4 THEN BigOf(DigitsValue(s))
    ELSE LET h == Len(s) \div 2
             hi == BigFromDigits(SubSeq(s, 1, Len(s) - h))
             lo == BigFromDigits(SubSeq(s, Len(s) - h + 1, Len(s)))
         IN  BigAdd(BigMul(hi, Pow10(h)), lo)

\* the value of an exponent's digits; six significant digits or more stand
\* for 100000, beyond which every text shorter than that many characters
\* is read as 0 or inf already
ExponentValue(s) ==
    LET nz == {i \in 1..Len(s) : s[i] # "0"}
        t == IF nz = {} THEN <<>> ELSE SubSeq(s, Min(nz), Len(s))
    IN  IF Len(t) > 5 THEN 100000 ELSE DigitsValue(t)

\* the letters of inf, infinity and nan in lower case
Lower(c) ==
    CASE c = "A" -> "a" [] c = "F" -> "f" [] c = "I" -> "i" [] c = "N" -> "n"
      [] c = "T" -> "t" [] c = "Y" -> "y" [] OTHER -> c

\* what float() gives: a value, or ValueError
Value(v) == [ok |-> TRUE, v |-> v, err |-> ""]
NotANumber == [ok |-> FALSE, v |-> NaN, err |-> "ValueError"]

AllDigits(d) == \A i \in 1..Len(d) : d[i] \in Digits

Signed(t) == t # <<>> /\ t[1] \in {"+", "-"}

\* the position of the first character of C in t, Len(t) + 1 if there is none
First(t, C) ==
    IF \E i \in 1..Len(t) : t[i] \in C
    THEN Min({i \in 1..Len(t) : t[i] \in C})
    ELSE Len(t) + 1

\* the digits before and after the point, the exponent's sign and digits:
\* there is a digit, and an exponent that is written has digits
ParseParts(neg, whole, frac, hasExp, expNeg, expDigits) ==
    IF /\ AllDigits(whole) /\ AllDigits(frac)
       /\ Len(whole) + Len(frac) > 0
       /\ hasExp => (expDigits # <<>> /\ AllDigits(expDigits))
    THEN Value(FromDecimal(neg, BigFromDigits(whole \o frac),
                           (IF expNeg THEN 0 - ExponentValue(expDigits)
                            ELSE ExponentValue(expDigits)) - Len(frac)))
    ELSE NotANumber

\* mant is the text before the first e or E, ex the text after it
ParseNumber(neg, mant, hasExp, ex) ==
    ParseParts(neg,
               SubSeq(mant, 1, First(mant, {"."}) - 1),
               SubSeq(mant, First(mant, {"."}) + 1, Len(mant)),
               hasExp,
               Signed(ex) /\ ex[1] = "-",
               IF Signed(ex) THEN Tail(ex) ELSE ex)

\* the text after the sign: inf, infinity or nan in any case, or a number
ParseUnsigned(neg, body) ==
    IF [i \in 1..Len(body) |-> Lower(body[i])]
           \in {<<"i", "n", "f">>, <<"i", "n", "f", "i", "n", "i", "t", "y">>}
    THEN Value(Inf(neg))
    ELSE IF [i \in 1..Len(body) |-> Lower(body[i])] = <<"n", "a", "n">>
    THEN Value(NaN)
    ELSE ParseNumber(neg,
                     SubSeq(body, 1, First(body, {"e", "E"}) - 1),
                     First(body, {"e", "E"}) <= Len(body),
                     SubSeq(body, First(body, {"e", "E"}) + 1, Len(body)))

\* float(s) for a str: whitespace around the text is dropped; an underscore
\* may stand between two digits; the text is a sign and inf, infinity or nan
\* in any case, or a sign, digits with at most one point among them and an
\* exponent e or E with a sign and digits; anything else raises ValueError.
\* The value is the float nearest to the number written.
ParseFloat(s) ==
    IF \E i \in 1..Len(s) :
          /\ s[i] = "_"
          /\ ~(1 < i /\ i < Len(s) /\ s[i - 1] \in Digits /\ s[i + 1] \in Digits)
    THEN NotANumber
    ELSE LET t == SelectSeq(StripOf(s, FloatSpace), LAMBDA c : c # "_")
         IN  ParseUnsigned(Signed(t) /\ t[1] = "-", IF Signed(t) THEN Tail(t) ELSE t)

\* lines 119-120: the floats the literals 29.4 and 8.8 denote,
\* 0x1.d666666666666p+4 and 0x1.199999999999ap+3
DefaultSlope == Num(FALSE, <<9830, 6553, 9830, 1881>>, 0 - 48)
DefaultIntercept == Num(FALSE, <<6554, 9830, 6553, 1126>>, 0 - 49)

FloatVal(v) == [kind |-> "float", v |-> v]
StrVal(s) == [kind |-> "str", s |-> s]
NoVal == [kind |-> "unbound"]

\* float(x) at line 122: x is the default float or the str typed at the
\* prompt; a name never bound raises NameError
ToFloat(x) ==
    IF x.kind = "float" THEN Value(x.v)
    ELSE IF x.kind = "str" THEN ParseFloat(x.s)
    ELSE [ok |-> FALSE, v |-> NaN, err |-> "NameError"]

---------------------------------------------------------------------------
(* Arrays *)

\* line 97: data.ravel(), row-major
RECURSIVE Ravel(_)
Ravel(g) == IF g = <<>> THEN <<>> ELSE Head(g) \o Ravel(Tail(g))

\* line 98: [x for x in valid_data if x>=min_range]
FilterMin(s, lo) == SelectSeq(s, LAMBDA x : x >= lo)

\* line 99 with < for <=
FilterMax_Exclusive(s, hi) == SelectSeq(s, LAMBDA x : x < hi)

\* line 99: [x for x in valid_data if x<=max_range]
FilterMax(s, hi) == SelectSeq(s, LAMBDA x : x <= hi)

\* line 102: valid_data*scale_factor, the ints converted to float64
ScaleSeq(s, sf) == [i \in 1..Len(s) |-> FMul(FromInt(s[i]), sf)]

\* lines 97-102: the scaled values the statistics are computed over
ValidData(g, lo, hi, sf) ==
    ScaleSeq(FilterMax(FilterMin(Ravel(g), lo), hi), sf)

\* line 104: sum(valid_data), from the int 0, left to right
RECURSIVE Sum(_)
Sum(s) ==
    IF s = <<>> THEN FromInt(0)
    ELSE FAdd(Sum(SubSeq(s, 1, Len(s) - 1)), s[Len(s)])

\* line 104: sum(valid_data)/len(valid_data) for a sequence that is not empty
Mean(s) == FDiv(Sum(s), FromInt(Len(s)))

\* x*x
Square(x) == FMul(x, x)

\* line 106: np.std(valid_data): the square root of the mean of the squared
\* differences from the mean.  np.add.reduce adds fewer than eight elements
\* from 0, left to right.
Std(s) ==
    LET m == Mean(s)
    IN  FSqrt(FDiv(Sum([i \in 1..Len(s) |-> Square(FSub(s[i], m))]),
                   FromInt(Len(s))))

\* line 121: data*scale_factor over the full grid
ScaleGrid(g, sf) ==
    [i \in 1..Len(g) |-> [j \in 1..Len(g[i]) |-> FMul(FromInt(g[i][j]), sf)]]

\* line 122: float(slope)*valid_data+float(intercept), a the float of the
\* slope and b the float of the intercept
LinearPM25(scaled, a, b) ==
    [i \in 1..Len(scaled) |-> [j \in 1..Len(scaled[i]) |->
        FAdd(FMul(a, scaled[i][j]), b)]]

\* the category codes 0..5 as floats
Category == [k \in 0..5 |-> FromInt(k)]

\* the floats the literals 12, 35.4, 55.4, 150.4, 250.4 of lines 133-138
\* denote: 12, 0x1.1b33333333333p+5, 0x1.bb33333333333p+5,
\* 0x1.2cccccccccccdp+7 and 0x1.f4ccccccccccdp+7
Limit == <<FromInt(12),
           Num(FALSE, <<13107, 3276, 13107, 1132>>, 0 - 47),
           Num(FALSE, <<13107, 3276, 13107, 1772>>, 0 - 47),
           Num(FALSE, <<3277, 13107, 3276, 1203>>, 0 - 45),
           Num(FALSE, <<3277, 13107, 3276, 2003>>, 0 - 45)>>

\* line 133 with < 12 for <= 12
InGood_Exclusive(x) == GE(x, Category[0]) /\ LT(x, Limit[1])

\* line 134 without its lower bound
InModerate_NoLowerBound(x) == LE(x, Limit[2])

\* the tests of lines 133-139
InGood(x) == GE(x, Category[0]) /\ LE(x, Limit[1])
InModerate(x) == GT(x, Limit[1]) /\ LE(x, Limit[2])
InSensitive(x) == GT(x, Limit[2]) /\ LE(x, Limit[3])
InUnhealthy(x) == GT(x, Limit[3]) /\ LE(x, Limit[4])
InVeryUnhealthy(x) == GT(x, Limit[4]) /\ LE(x, Limit[5])
InHazardous(x) == GT(x, Limit[5])
IsNegative(x) == LT(x, Category[0])

\* g[mask] = value
AssignWhere(g, mask, value) ==
    [i \in 1..Len(g) |-> [j \in 1..Len(g[i]) |->
        IF mask[i][j] THEN value ELSE g[i][j]]]

\* the cells of mask, written by the k-th assignment, added to h
Record(h, mask, k) ==
    [i \in 1..Len(h) |-> [j \in 1..Len(h[i]) |->
        IF mask[i][j] THEN h[i][j] \cup {k} ELSE h[i][j]]]

\* line 132: no cell written yet
NoHits(g) == [i \in 1..Len(g) |-> [j \in 1..Len(g[i]) |-> {}]]

\* line 142: np.isnan(data)
NanMask(g) == [i \in 1..Len(g) |-> [j \in 1..Len(g[i]) |-> IsNaN(g[i][j])]]

---------------------------------------------------------------------------
(* Files *)

\* fileList.txt: absent, or present with these lines
NoFile == [exists |-> FALSE, lines |-> <<>>]
TextFile(lines) == [exists |-> TRUE, lines |-> lines]

Dataset(sf, rng, grid) == [scale_factor |-> sf, range |-> rng, grid |-> grid]

\* what SD.SD(FILE_NAME) gives: the names select() finds, and for each AOD
\* name present its attributes, range and values
Closed == [open |-> FALSE, vars |-> {}, ds |-> <<>>]
Opened(names, ds) == [open |-> TRUE, vars |-> names, ds |-> ds]

FillValue == 0 - 9999

\* the scale_factor attribute of the MODIS AOD variables,
\* 0.0010000000474974513 = 8589935 * 2^-33 = 0x1.0624dep-10
ModisScale == Num(FALSE, <<0, 0, 9438, 1048>>, 0 - 62)

\* a MODIS AOD dataset: valid range -100..5000, with fill, values inside
\* the range and a value above it
GoodDataset ==
    Dataset(ModisScale, <<0 - 100, 5000>>, <<<<FillValue, 1000>>, <<5001, 5000>>>>)
\* a dataset whose every value is fill
FillDataset == Dataset(ModisScale, <<0 - 100, 5000>>, <<<<FillValue, FillValue>>>>)

\* the files that may lie behind a name: unreadable, or any subset of the
\* four variables with either dataset behind each AOD variable
FileContents ==
    {Closed} \cup
    UNION {{Opened(V, f) : f \in [V \cap AODNames -> {GoodDataset, FillDataset}]} :
           V \in SUBSET SDSNames}

\* of these, for the lists of several lines: unreadable, without
\* coordinates, without AOD, with fill only, and complete
LoopContents ==
    {Closed,
     Opened(AODNames, [n \in AODNames |-> GoodDataset]),
     Opened({"Latitude", "Longitude"}, <<>>),
     Opened(SDSNames, [n \in AODNames |-> FillDataset]),
     Opened(SDSNames, [n \in AODNames |-> GoodDataset])}

\* what the user may type at the slope and at the intercept prompt
SlopeEntries ==
    {<<"2">>, <<"-", "1">>, <<"x">>, <<"2", "9", ".", "4">>, <<"1", "e", "1">>,
     <<"\t", "2">>}
InterceptEntries ==
    {<<"8", ".", "8">>, <<"-", "1">>, <<"x">>, <<"n", "a", "n">>, <<"2", "\n">>}

LoopAnswers == {<<"Y">>, <<"n">>, <<>>}
LoopEntries == {<<"2">>, <<"x">>}

\* the lines of fileList.txt: the three example names, and one with tabs
\* around it
Lines == {Line(Name3K), Line(NameL2), Line(NameOther), TabbedLine(NameL2)}

RECURSIVE SeqsUpTo(_, _)
SeqsUpTo(S, n) ==
    IF n = 0 THEN {<<>>}
    ELSE LET shorter == SeqsUpTo(S, n - 1)
         IN  shorter \cup {Append(q, x) : q \in {r \in shorter : Len(r) = n - 1}, x \in S}

---------------------------------------------------------------------------
(* The script *)

Raise(e) == pc' = "crashed" /\ error' = e

Say(m) == printed' = Append(printed, m)

Answer(p, a) == console' = Append(console, [prompt |-> p, answer |-> a])

\* lines 35-39: open fileList.txt, or report that it is missing and exit
OpenFileList ==
    /\ pc = "start"
    /\ IF fileListTxt.exists
       THEN /\ fileList' = fileListTxt.lines
            /\ pc' = "loop"
            /\ UNCHANGED printed
       ELSE /\ Say("Did not find a text file containing file names (perhaps name does not match)")
            /\ pc' = "exited"
            /\ UNCHANGED fileList
    /\ UNCHANGED <<fileListTxt, idx, error, FILE_NAME, user_input, SDS_NAME,
                   hdf, sds, scale_factor, min_range, max_range, data, valid_data,
                   average, stdev, slope, intercept, pm25, is_map, is_save, console,
                   hits, pngFiles, written>>

\* line 45: the loop takes the next line and binds FILE_NAME to it; line 46
\* strips it; line 47 prompts.  No other name of the script changes.
NextFile ==
    /\ pc = "loop"
    /\ idx < Len(fileList)
    /\ idx' = idx + 1
    /\ FILE_NAME' = Strip(fileList[idx + 1])
    /\ pc' = "ask_process"
    /\ console' = <<>> /\ printed' = <<>> /\ hits' = <<>> /\ written' = {}
    /\ UNCHANGED <<fileListTxt, fileList, error, user_input, SDS_NAME, hdf,
                   sds, scale_factor, min_range, max_range, data, valid_data, average,
                   stdev, slope, intercept, pm25, is_map, is_save, pngFiles>>

\* line 45: no line is left
EndOfList ==
    /\ pc = "loop"
    /\ idx = Len(fileList)
    /\ pc' = "done"
    /\ UNCHANGED <<fileListTxt, fileList, idx, error, FILE_NAME, user_input,
                   SDS_NAME, hdf, sds, scale_factor, min_range, max_range, data,
                   valid_data, average, stdev, slope, intercept, pm25, is_map, is_save,
                   console, printed, hits, pngFiles, written>>

\* lines 47-50
AnswerProcess(a) ==
    /\ pc = "ask_process"
    /\ user_input' = a
    /\ Answer("process", a)
    /\ pc' = IF IsNo(a) THEN "loop" ELSE "resolve"
    /\ UNCHANGED <<fileListTxt, fileList, idx, error, FILE_NAME, SDS_NAME,
                   hdf, sds, scale_factor, min_range, max_range, data, valid_data,
                   average, stdev, slope, intercept, pm25, is_map, is_save, printed,
                   hits, pngFiles, written>>

\* lines 51-59
ResolveSDS ==
    /\ pc = "resolve"
    /\ LET n == ResolveSDSName(FILE_NAME)
       IN  IF n = ""
           THEN /\ Say("not a valid MODIS file")
                /\ pc' = "loop"
                /\ UNCHANGED SDS_NAME
           ELSE /\ Say(IF n = ODLAO THEN "3km MODIS file" ELSE "10km MODIS file")
                /\ SDS_NAME' = n
                /\ pc' = "open"
    /\ UNCHANGED <<fileListTxt, fileList, idx, error, FILE_NAME, user_input,
                   hdf, sds, scale_factor, min_range, max_range, data, valid_data,
                   average, stdev, slope, intercept, pm25, is_map, is_save, console,
                   hits, pngFiles, written>>

\* lines 60-65: c is what lies behind FILE_NAME
OpenFile(c) ==
    /\ pc = "open"
    /\ IF c.open
       THEN hdf' = c /\ pc' = "latlon" /\ UNCHANGED printed
       ELSE Say("Unable to open file") /\ pc' = "loop" /\ UNCHANGED hdf
    /\ UNCHANGED <<fileListTxt, fileList, idx, error, FILE_NAME, user_input,
                   SDS_NAME, sds, scale_factor, min_range, max_range, data, valid_data,
                   average, stdev, slope, intercept, pm25, is_map, is_save, console,
                   hits, pngFiles, written>>

\* lines 68-75: select() of a name the file lacks raises HDF4Error, which
\* nothing catches.  The coordinate values go only to the report and the
\* map extent and are not kept.
ReadLatLon ==
    /\ pc = "latlon"
    /\ IF {"Latitude", "Longitude"} \subseteq hdf.vars
       THEN pc' = "select" /\ UNCHANGED error
       ELSE Raise("HDF4Error")
    /\ UNCHANGED <<fileListTxt, fileList, idx, FILE_NAME, user_input,
                   SDS_NAME, hdf, sds, scale_factor, min_range, max_range, data,
                   valid_data, average, stdev, slope, intercept, pm25, is_map, is_save,
                   console, printed, hits, pngFiles, written>>

\* lines 78-85: the name select() succeeds with, "" when both raise
SelectedSDS(names, resolved) ==
    IF resolved \in names THEN resolved
    ELSE IF ODLAO \in names THEN ODLAO
    ELSE ""

\* lines 78-85
SelectSDS ==
    /\ pc = "select"
    /\ LET n == SelectedSDS(hdf.vars, SDS_NAME)
       IN  IF n = ""
           THEN Say("does not contain the SDS") /\ pc' = "loop" /\ UNCHANGED sds
           ELSE sds' = n /\ pc' = "read_sds" /\ UNCHANGED printed
    /\ UNCHANGED <<fileListTxt, fileList, idx, error, FILE_NAME, user_input,
                   SDS_NAME, hdf, scale_factor, min_range, max_range, data, valid_data,
                   average, stdev, slope, intercept, pm25, is_map, is_save, console,
                   hits, pngFiles, written>>

\* lines 87-95
ReadSDS ==
    /\ pc = "read_sds"
    /\ LET d == hdf.ds[sds]
       IN  /\ scale_factor' = d.scale_factor
           /\ min_range' = Min({d.range[1], d.range[2]})
           /\ max_range' = Max({d.range[1], d.range[2]})
           /\ data' = d.grid
    /\ pc' = "statistics"
    /\ UNCHANGED <<fileListTxt, fileList, idx, error, FILE_NAME, user_input,
                   SDS_NAME, hdf, sds, valid_data, average, stdev, slope, intercept,
                   pm25, is_map, is_save, console, printed, hits, pngFiles, written>>

\* lines 102-109, v being the scaled values the filters have kept:
\* sum(valid_data)/len(valid_data) divides the int 0 by the int 0 when v is
\* empty
Report(v) ==
    /\ valid_data' = v
    /\ IF Len(v) = 0
       THEN Raise("ZeroDivisionError") /\ UNCHANGED <<average, stdev, printed>>
       ELSE /\ average' = Mean(v)
            /\ stdev' = Std(v)
            /\ Say("statistics")
            /\ pc' = "ask_params"
            /\ UNCHANGED error

\* lines 97-109
Statistics ==
    /\ pc = "statistics"
    /\ Report(ValidData(data, min_range, max_range, scale_factor))
    /\ UNCHANGED <<fileListTxt, fileList, idx, FILE_NAME, user_input,
                   SDS_NAME, hdf, sds, scale_factor, min_range, max_range, data, slope,
                   intercept, pm25, is_map, is_save, console, hits, pngFiles, written>>

\* lines 117-120 leaving both names as they were
ElseParams_Keep(slope_before, intercept_before) ==
    <<slope_before, intercept_before>>

\* lines 117-120: what the else branch binds slope and intercept to,
\* whatever they held before
ElseParams(slope_before, intercept_before) ==
    <<FloatVal(DefaultSlope), FloatVal(DefaultIntercept)>>

\* lines 113-120
AnswerParams(a) ==
    /\ pc = "ask_params"
    /\ user_input' = a
    /\ Answer("parameters", a)
    /\ IF IsYes(a)
       THEN pc' = "enter_slope" /\ UNCHANGED <<slope, intercept>>
       ELSE /\ slope' = ElseParams(slope, intercept)[1]
            /\ intercept' = ElseParams(slope, intercept)[2]
            /\ pc' = "compute"
    /\ UNCHANGED <<fileListTxt, fileList, idx, error, FILE_NAME, SDS_NAME,
                   hdf, sds, scale_factor, min_range, max_range, data, valid_data,
                   average, stdev, pm25, is_map, is_save, printed, hits, pngFiles,
                   written>>

\* line 115
EnterSlope(s) ==
    /\ pc = "enter_slope"
    /\ slope' = StrVal(s)
    /\ Answer("slope", s)
    /\ pc' = "enter_intercept"
    /\ UNCHANGED <<fileListTxt, fileList, idx, error, FILE_NAME, user_input,
                   SDS_NAME, hdf, sds, scale_factor, min_range, max_range, data,
                   valid_data, average, stdev, intercept, pm25, is_map, is_save, printed,
                   hits, pngFiles, written>>

\* line 116
EnterIntercept(s) ==
    /\ pc = "enter_intercept"
    /\ intercept' = StrVal(s)
    /\ Answer("intercept", s)
    /\ pc' = "compute"
    /\ UNCHANGED <<fileListTxt, fileList, idx, error, FILE_NAME, user_input,
                   SDS_NAME, hdf, sds, scale_factor, min_range, max_range, data,
                   valid_data, average, stdev, slope, pm25, is_map, is_save, printed,
                   hits, pngFiles, written>>

\* lines 121-122, scaled being data*scale_factor, a and b what float(slope)
\* and float(intercept) give, in that order: the first that raises ends the
\* run
Convert(scaled, a, b) ==
    /\ valid_data' = scaled
    /\ IF ~a.ok
       THEN Raise(a.err) /\ UNCHANGED pm25
       ELSE IF ~b.ok
       THEN Raise(b.err) /\ UNCHANGED pm25
       ELSE /\ pm25' = LinearPM25(scaled, a.v, b.v)
            /\ pc' = "ask_map"
            /\ UNCHANGED error

\* lines 121-122: float() of text that is no number raises ValueError
ComputePM25 ==
    /\ pc = "compute"
    /\ Convert(ScaleGrid(data, scale_factor), ToFloat(slope), ToFloat(intercept))
    /\ UNCHANGED <<fileListTxt, fileList, idx, FILE_NAME, user_input,
                   SDS_NAME, hdf, sds, scale_factor, min_range, max_range, data, average,
                   stdev, slope, intercept, is_map, is_save, console, printed, hits,
                   pngFiles, written>>

\* lines 127-132: on Y or y, data becomes a float copy of pm25
AnswerMap(a) ==
    /\ pc = "ask_map"
    /\ is_map' = a
    /\ Answer("map", a)
    /\ IF IsYes(a)
       THEN /\ data' = pm25
            /\ hits' = NoHits(pm25)
            /\ pc' = "good"
       ELSE pc' = "loop" /\ UNCHANGED <<data, hits>>
    /\ UNCHANGED <<fileListTxt, fileList, idx, error, FILE_NAME, user_input,
                   SDS_NAME, hdf, sds, scale_factor, min_range, max_range, valid_data,
                   average, stdev, slope, intercept, pm25, is_save, printed, pngFiles,
                   written>>

\* the k-th masked assignment of lines 133-139, on data in place: mask is
\* the boolean array its test gives on data as the earlier assignments left
\* it
MaskedAssign(k, mask, value) ==
    /\ data' = AssignWhere(data, mask, value)
    /\ hits' = Record(hits, mask, k)
    /\ UNCHANGED <<fileListTxt, fileList, idx, error, FILE_NAME, user_input,
                   SDS_NAME, hdf, sds, scale_factor, min_range, max_range, valid_data,
                   average, stdev, slope, intercept, pm25, is_map, is_save, console,
                   printed, pngFiles, written>>

\* line 133
AssignGood ==
    /\ pc = "good"
    /\ MaskedAssign(1,
         [i \in 1..Len(data) |-> [j \in 1..Len(data[i]) |-> InGood(data[i][j])]],
         Category[0])
    /\ pc' = "moderate"

\* line 134
AssignModerate ==
    /\ pc = "moderate"
    /\ MaskedAssign(2,
         [i \in 1..Len(data) |-> [j \in 1..Len(data[i]) |-> InModerate(data[i][j])]],
         Category[1])
    /\ pc' = "sensitive"

\* line 135
AssignSensitive ==
    /\ pc = "sensitive"
    /\ MaskedAssign(3,
         [i \in 1..Len(data) |-> [j \in 1..Len(data[i]) |-> InSensitive(data[i][j])]],
         Category[2])
    /\ pc' = "unhealthy"

\* line 136
AssignUnhealthy ==
    /\ pc = "unhealthy"
    /\ MaskedAssign(4,
         [i \in 1..Len(data) |-> [j \in 1..Len(data[i]) |-> InUnhealthy(data[i][j])]],
         Category[3])
    /\ pc' = "very_unhealthy"

\* line 137
AssignVeryUnhealthy ==
    /\ pc = "very_unhealthy"
    /\ MaskedAssign(5,
         [i \in 1..Len(data) |-> [j \in 1..Len(data[i]) |-> InVeryUnhealthy(data[i][j])]],
         Category[4])
    /\ pc' = "hazardous"

\* line 138
AssignHazardous ==
    /\ pc = "hazardous"
    /\ MaskedAssign(6,
         [i \in 1..Len(data) |-> [j \in 1..Len(data[i]) |-> InHazardous(data[i][j])]],
         Category[5])
    /\ pc' = "negative"

\* line 139: data[data < 0] = np.nan
AssignNaN ==
    /\ pc = "negative"
    /\ MaskedAssign(7,
         [i \in 1..Len(data) |-> [j \in 1..Len(data[i]) |-> IsNegative(data[i][j])]],
         NaN)
    /\ pc' = "plot"

\* lines 142-171: data becomes the masked array that is drawn and shown
ShowMap ==
    /\ pc = "plot"
    /\ data' = [values |-> data, mask |-> NanMask(data)]
    /\ pc' = "ask_save"
    /\ UNCHANGED <<fileListTxt, fileList, idx, error, FILE_NAME, user_input,
                   SDS_NAME, hdf, sds, scale_factor, min_range, max_range, valid_data,
                   average, stdev, slope, intercept, pm25, is_map, is_save, console,
                   printed, hits, pngFiles, written>>

\* lines 174-178
AnswerSave(a) ==
    /\ pc = "ask_save"
    /\ is_save' = a
    /\ Answer("save", a)
    /\ IF IsYes(a)
       THEN /\ pngFiles' = pngFiles \cup {PngName(FILE_NAME)}
            /\ written' = written \cup {PngName(FILE_NAME)}
       ELSE UNCHANGED <<pngFiles, written>>
    /\ pc' = "loop"
    /\ UNCHANGED <<fileListTxt, fileList, idx, error, FILE_NAME, user_input,
                   SDS_NAME, hdf, sds, scale_factor, min_range, max_range, data,
                   valid_data, average, stdev, slope, intercept, pm25, is_map, printed,
                   hits>>

\* the script about to run line 35, with txt as fileList.txt
Start(txt) ==
    /\ fileListTxt = txt
    /\ fileList = Unbound
    /\ idx = 0
    /\ pc = "start"
    /\ error = ""
    /\ FILE_NAME = Unbound /\ user_input = Unbound /\ SDS_NAME = Unbound
    /\ hdf = Closed /\ sds = Unbound /\ scale_factor = Unbound
    /\ min_range = Unbound /\ max_range = Unbound
    /\ data = Unbound /\ valid_data = Unbound
    /\ average = Unbound /\ stdev = Unbound
    /\ slope = NoVal /\ intercept = NoVal /\ pm25 = Unbound
    /\ is_map = Unbound /\ is_save = Unbound
    /\ console = <<>> /\ printed = <<>> /\ hits = <<>>
    /\ pngFiles = {} /\ written = {}

---------------------------------------------------------------------------
(* The whole script on lists of up to MaxFiles lines, or without a list *)

Init == \E txt \in {NoFile} \cup {TextFile(l) : l \in SeqsUpTo(Lines, MaxFiles)} : Start(txt)

Next ==
    \/ OpenFileList \/ NextFile \/ EndOfList
    \/ \E a \in LoopAnswers : AnswerProcess(a)
    \/ ResolveSDS
    \/ \E c \in LoopContents : OpenFile(c)
    \/ ReadLatLon \/ SelectSDS \/ ReadSDS \/ Statistics
    \/ \E a \in LoopAnswers : AnswerParams(a)
    \/ \E s \in LoopEntries : EnterSlope(s)
    \/ \E s \in LoopEntries : EnterIntercept(s)
    \/ ComputePM25
    \/ \E a \in LoopAnswers : AnswerMap(a)
    \/ AssignGood \/ AssignModerate \/ AssignSensitive \/ AssignUnhealthy
    \/ AssignVeryUnhealthy \/ AssignHazardous \/ AssignNaN
    \/ ShowMap
    \/ \E a \in LoopAnswers : AnswerSave(a)

Spec == Init /\ [][Next]_vars

---------------------------------------------------------------------------
(* The whole script on a list of one line, with every answer, every file
   content and every entry *)

InitOneFile == \E l \in Lines : Start(TextFile(<<l>>))

NextOneFile ==
    \/ OpenFileList \/ NextFile \/ EndOfList
    \/ \E a \in Answers : AnswerProcess(a)
    \/ ResolveSDS
    \/ \E c \in FileContents : OpenFile(c)
    \/ ReadLatLon \/ SelectSDS \/ ReadSDS \/ Statistics
    \/ \E a \in Answers : AnswerParams(a)
    \/ \E s \in SlopeEntries : EnterSlope(s)
    \/ \E s \in InterceptEntries : EnterIntercept(s)
    \/ ComputePM25
    \/ \E a \in Answers : AnswerMap(a)
    \/ AssignGood \/ AssignModerate \/ AssignSensitive \/ AssignUnhealthy
    \/ AssignVeryUnhealthy \/ AssignHazardous \/ AssignNaN
    \/ ShowMap
    \/ \E a \in Answers : AnswerSave(a)

SpecOneFile == InitOneFile /\ [][NextOneFile]_vars

---------------------------------------------------------------------------
(* Name resolution alone: the script on a list of one line of any text over
   a small alphabet, taken through the process prompt and lines 51-59 *)

ResolveLines == SeqsUpTo({"3", "K", "L", "2", "x", " ", "\t"}, MaxNameLen) \cup Lines

InitResolve == \E l \in ResolveLines : Start(TextFile(<<l>>))

NextResolve ==
    \/ OpenFileList \/ NextFile
    \/ \E a \in Answers : AnswerProcess(a)
    \/ ResolveSDS

SpecResolve == InitResolve /\ [][NextResolve]_vars

---------------------------------------------------------------------------
(* The statistics alone: the script at line 87 of the first line's file,
   whose AOD dataset ranges over small grids of raw values around the valid
   range, taken through lines 87-109 *)

Shapes(n) == {sh \in (1..n) \X (1..n) : sh[1] * sh[2] <= n}

Grids(V, n) == UNION {[1..sh[1] -> [1..sh[2] -> V]] : sh \in Shapes(n)}

\* the scale factor is that of MODIS or the float 0.002; getrange() has
\* given (min, max) or (max, min) depending on the pyhdf version; the raw
\* values are fill, the bounds of the range and their outer neighbours
StatisticsDatasets ==
    {Dataset(sf, rng, g) :
        sf \in {ModisScale, Num(FALSE, <<10748, 3014, 9437, 1048>>, 0 - 61)},
        rng \in {<<0 - 100, 5000>>, <<5000, 0 - 100>>},
        g \in Grids({FillValue, 0 - 101, 0 - 100, 5000, 5001}, MaxCells)}

\* the script after the select of lines 78-85 has succeeded for the first
\* line, NameL2, d being the file's AOD dataset
AtReadSDS(d) ==
    /\ fileListTxt = TextFile(<<Line(NameL2)>>)
    /\ fileList = <<Line(NameL2)>>
    /\ idx = 1
    /\ pc = "read_sds"
    /\ error = ""
    /\ FILE_NAME = NameL2 /\ user_input = <<"Y">> /\ SDS_NAME = AOD550
    /\ hdf = Opened(SDSNames, [n \in AODNames |-> d]) /\ sds = AOD550
    /\ scale_factor = Unbound /\ min_range = Unbound /\ max_range = Unbound
    /\ data = Unbound /\ valid_data = Unbound
    /\ average = Unbound /\ stdev = Unbound
    /\ slope = NoVal /\ intercept = NoVal /\ pm25 = Unbound
    /\ is_map = Unbound /\ is_save = Unbound
    /\ console = <<[prompt |-> "process", answer |-> <<"Y">>]>>
    /\ printed = <<"10km MODIS file">> /\ hits = <<>>
    /\ pngFiles = {} /\ written = {}

InitStatistics == \E d \in StatisticsDatasets : AtReadSDS(d)

NextStatistics == ReadSDS \/ Statistics

SpecStatistics == InitStatistics /\ [][NextStatistics]_vars

---------------------------------------------------------------------------
(* Conversion and classification alone: the script at line 121 of the first
   line's file, the slope and the intercept typed, taken through lines
   121-171 *)

\* what is typed at the intercept prompt of a flat line: the inputs of the
\* boundary vector, 55.41, NaN, the infinities, -0.0 and the smallest
\* negative float
InterceptTexts ==
    {<<"-", "1">>, <<"0">>, <<"1", "2">>, <<"1", "2", ".", "0", "0", "0", "1">>,
     <<"3", "5", ".", "4">>, <<"3", "5", ".", "4", "1">>, <<"5", "5", ".", "4">>,
     <<"1", "5", "0", ".", "4">>, <<"1", "5", "0", ".", "4", "1">>,
     <<"2", "5", "0", ".", "4">>, <<"2", "5", "0", ".", "4", "1">>,
     <<"5", "5", ".", "4", "1">>, <<"n", "a", "n">>, <<"i", "n", "f">>,
     <<"-", "i", "n", "f">>, <<"-", "0", ".", "0">>, <<"-", "5", "e", "-", "3", "2", "4">>}

\* one cell, slope 0: the PM2.5 value is the intercept typed;
\* up to MaxPMCells cells of raw values inside the valid range, converted
\* with the default values typed, with a falling line through 12 and with a
\* steep line reaching every category;
\* and the cell 3325 * 0.004 * 2 + 8.8, which is 35.4 in exact arithmetic
\* and above the float 35.4 as computed
ClassifyCases ==
    {[grid |-> <<<<0>>>>, scale_factor |-> ModisScale, slope |-> <<"0">>, intercept |-> b] :
        b \in InterceptTexts}
    \cup
    {[grid |-> g, scale_factor |-> ModisScale, slope |-> p[1], intercept |-> p[2]] :
        g \in Grids({0, 109, 1000, 2000, 5000}, MaxPMCells),
        p \in {<<<<"2", "9", ".", "4">>, <<"8", ".", "8">>>>,
               <<<<"-", "1", "0", "0">>, <<"1", "2">>>>,
               <<<<"1", "0", "0">>, <<"0">>>>}}
    \cup
    {[grid |-> <<<<3325>>>>, scale_factor |-> Num(FALSE, <<10748, 3014, 9437, 1048>>, 0 - 60),
      slope |-> <<"2">>, intercept |-> <<"8", ".", "8">>]}

\* the script after the intercept has been typed for the first line,
\* NameL2, c giving the file's AOD dataset and the two entries
AtCompute(c) ==
    /\ fileListTxt = TextFile(<<Line(NameL2)>>)
    /\ fileList = <<Line(NameL2)>>
    /\ idx = 1
    /\ pc = "compute"
    /\ error = ""
    /\ FILE_NAME = NameL2 /\ user_input = <<"Y">> /\ SDS_NAME = AOD550
    /\ hdf = Opened(SDSNames,
                    [n \in AODNames |-> Dataset(c.scale_factor, <<0 - 100, 5000>>, c.grid)])
    /\ sds = AOD550
    /\ scale_factor = c.scale_factor /\ min_range = 0 - 100 /\ max_range = 5000
    /\ data = c.grid
    /\ valid_data = ValidData(c.grid, 0 - 100, 5000, c.scale_factor)
    /\ average = Mean(ValidData(c.grid, 0 - 100, 5000, c.scale_factor))
    /\ stdev = Std(ValidData(c.grid, 0 - 100, 5000, c.scale_factor))
    /\ slope = StrVal(c.slope) /\ intercept = StrVal(c.intercept)
    /\ pm25 = Unbound
    /\ is_map = Unbound /\ is_save = Unbound
    /\ console = <<[prompt |-> "process", answer |-> <<"Y">>],
                   [prompt |-> "parameters", answer |-> <<"Y">>],
                   [prompt |-> "slope", answer |-> c.slope],
                   [prompt |-> "intercept", answer |-> c.intercept]>>
    /\ printed = <<"10km MODIS file", "statistics">> /\ hits = <<>>
    /\ pngFiles = {} /\ written = {}

InitClassify == \E c \in ClassifyCases : AtCompute(c)

NextClassify ==
    \/ ComputePM25
    \/ \E a \in {<<"Y">>, <<"y">>} : AnswerMap(a)
    \/ AssignGood \/ AssignModerate \/ AssignSensitive \/ AssignUnhealthy
    \/ AssignVeryUnhealthy \/ AssignHazardous \/ AssignNaN
    \/ ShowMap

SpecClassify == InitClassify /\ [][NextClassify]_vars

---------------------------------------------------------------------------
(* Claims *)

YesAnswers == {<<"Y">>, <<"y">>}
NoAnswers == {<<"N">>, <<"n">>}

\* the answer given at prompt p while handling the current line
Asked(p) == \E k \in 1..Len(console) : console[k].prompt = p
AnswerTo(p) == console[CHOOSE k \in 1..Len(console) : console[k].prompt = p].answer

\* C1: per-file isolation: an error while handling one file never keeps the
\* later files from being reached, so a run that has stopped on an error
\* has already taken every line of the list.
C1_PerFileIsolation == pc = "crashed" => idx = Len(fileList)

\* C2: for an opened file whose name resolved an SDS name: the resolved
\* variable is used when present; else the fallback when present; and when
\* neither is present the diagnostic is printed, nothing further happens
\* for the file and the run goes on to the next line without crashing.
C2_FallbackThenSkip ==
    hdf.open =>
      /\ (sds # Unbound /\ SDS_NAME \in hdf.vars) => sds = SDS_NAME
      /\ (sds # Unbound /\ SDS_NAME \notin hdf.vars) => sds = ODLAO
      /\ (SDS_NAME \notin hdf.vars /\ ODLAO \notin hdf.vars) =>
           /\ pc \in {"latlon", "select", "loop", "done"}
           /\ pc \in {"loop", "done"} =>
                printed = <<"10km MODIS file", "does not contain the SDS">>
                \/ printed = <<"3km MODIS file", "does not contain the SDS">>
           /\ Len(console) = 1
           /\ written = {}

\* The fallback-then-skip of lines 78-85 as far as the code provides it:
\* the same statement for files that do have Latitude and Longitude.
FallbackThenSkipWithCoordinates ==
    {"Latitude", "Longitude"} \subseteq hdf.vars => C2_FallbackThenSkip

\* the index pairs of a 2-D array
Cells(g) == {<<i, j>> : i \in 1..Len(g), j \in 1..(IF g = <<>> THEN 0 ELSE Len(g[1]))}

Has(name, a, b) == \E i \in 1..(Len(name) - 1) : name[i] = a /\ name[i + 1] = b

\* C3: once the file is not declined, a name containing "3K" resolves
\* Optical_Depth_Land_And_Ocean, otherwise one containing "L2" resolves
\* AOD_550_Dark_Target_Deep_Blue_Combined, otherwise the file is skipped
\* with a diagnostic and no attempt to open it; the three example names
\* resolve as stated.
C3_Resolution ==
    (Len(console) = 1 /\ AnswerTo("process") \notin NoAnswers /\ pc # "resolve") =>
      /\ Has(FILE_NAME, "3", "K") =>
           pc = "open" /\ SDS_NAME = "Optical_Depth_Land_And_Ocean"
      /\ (~Has(FILE_NAME, "3", "K") /\ Has(FILE_NAME, "L", "2")) =>
           pc = "open" /\ SDS_NAME = "AOD_550_Dark_Target_Deep_Blue_Combined"
      /\ (~Has(FILE_NAME, "3", "K") /\ ~Has(FILE_NAME, "L", "2")) =>
           /\ pc = "loop"
           /\ printed = <<"not a valid MODIS file">>
           /\ ~hdf.open
      /\ FILE_NAME = Name3K => SDS_NAME = "Optical_Depth_Land_And_Ocean"
      /\ FILE_NAME = NameL2 => SDS_NAME = "AOD_550_Dark_Target_Deep_Blue_Combined"
      /\ FILE_NAME = NameOther => pc = "loop"

\* a name with "L2" before "3K" has been resolved
C3_Witness ==
    /\ pc = "open"
    /\ FILE_NAME = <<"L", "2", "3", "K">>
    /\ SDS_NAME = ODLAO

\* the bounds of the table of section 4.4: 12, 35.4, 55.4, 150.4, 250.4
TableBounds ==
    <<FromInt(12),
      Num(FALSE, <<13107, 3276, 13107, 1132>>, 0 - 47),
      Num(FALSE, <<13107, 3276, 13107, 1772>>, 0 - 47),
      Num(FALSE, <<3277, 13107, 3276, 1203>>, 0 - 45),
      Num(FALSE, <<3277, 13107, 3276, 2003>>, 0 - 45)>>

TableCodes == <<FromInt(0), FromInt(1), FromInt(2), FromInt(3), FromInt(4), FromInt(5)>>

\* the single-pass table of section 4.4
Reference(x) ==
    IF IsNaN(x) THEN NaN
    ELSE IF LT(x, TableCodes[1]) THEN NaN
    ELSE IF LE(x, TableBounds[1]) THEN TableCodes[1]
    ELSE IF LE(x, TableBounds[2]) THEN TableCodes[2]
    ELSE IF LE(x, TableBounds[3]) THEN TableCodes[3]
    ELSE IF LE(x, TableBounds[4]) THEN TableCodes[4]
    ELSE IF LE(x, TableBounds[5]) THEN TableCodes[5]
    ELSE TableCodes[6]

\* C4: the seven in-place masked assignments equal the single-pass table
\* for every value; every non-NaN value is written by exactly one of them,
\* and no cell is written twice.
C4_ClassifierEqualsReference ==
    /\ \A c \in Cells(hits) : Cardinality(hits[c[1]][c[2]]) <= 1
    /\ pc = "plot" =>
         \A c \in Cells(pm25) :
            /\ data[c[1]][c[2]] = Reference(pm25[c[1]][c[2]])
            /\ ~IsNaN(pm25[c[1]][c[2]]) => Cardinality(hits[c[1]][c[2]]) = 1
            /\ IsNaN(pm25[c[1]][c[2]]) => hits[c[1]][c[2]] = {}

\* a cell that line 133 turned into code 0 and a cell that line 136 turned
\* into code 3 have passed every later assignment
C4_Witness ==
    /\ pc = "plot"
    /\ Len(pm25) = 1 /\ Len(pm25[1]) = 2
    /\ data = <<<<TableCodes[1], TableCodes[4]>>>>
    /\ hits = <<<<{1}, {4}>>>>

\* -1, 0, 12, 12.0001, 35.4, 35.41, 55.4, 150.4, 150.41, 250.4, 250.41
BoundaryValues ==
    <<FromInt(0 - 1), FromInt(0), FromInt(12),
      Num(FALSE, <<13710, 11717, 209, 1536>>, 0 - 49),
      Num(FALSE, <<13107, 3276, 13107, 1132>>, 0 - 47),
      Num(FALSE, <<11796, 1310, 1966, 1133>>, 0 - 47),
      Num(FALSE, <<13107, 3276, 13107, 1772>>, 0 - 47),
      Num(FALSE, <<3277, 13107, 3276, 1203>>, 0 - 45),
      Num(FALSE, <<11141, 8519, 4587, 1203>>, 0 - 45),
      Num(FALSE, <<3277, 13107, 3276, 2003>>, 0 - 45),
      Num(FALSE, <<11141, 8519, 4587, 2003>>, 0 - 45)>>

\* the i-th value of the boundary vector has been classified
ClassifiedBoundary(i) == pc = "plot" /\ pm25 = <<<<BoundaryValues[i]>>>>

CodeRow(codes) ==
    [i \in 1..Len(codes) |-> IF codes[i] < 0 THEN NaN ELSE TableCodes[codes[i] + 1]]

\* C5 as stated: the eleven inputs yield NaN,0,0,1,1,2,2,3,3,4,4,5, the
\* i-th input mapped to the i-th output.
C5_StatedVector ==
    \A i \in 1..Len(BoundaryValues) :
        ClassifiedBoundary(i) =>
            data = <<<<CodeRow(<<0 - 1, 0, 0, 1, 1, 2, 2, 3, 3, 4, 4, 5>>)[i]>>>>

\* C5 amended: the eleven inputs yield NaN,0,0,1,1,2,2,3,4,4,5.
C5_BoundaryVector ==
    \A i \in 1..Len(BoundaryValues) :
        ClassifiedBoundary(i) =>
            data = <<<<CodeRow(<<0 - 1, 0, 0, 1, 1, 2, 2, 3, 4, 4, 5>>)[i]>>>>

\* 150.41, typed as the intercept of a flat line, has been classified
C5_Witness ==
    /\ ClassifiedBoundary(9)
    /\ AnswerTo("intercept") = <<"1", "5", "0", ".", "4", "1">>
    /\ data = <<<<TableCodes[5]>>>>

\* the raw grid of the dataset being read
Raw == hdf.ds[sds].grid

\* the elements of the flattened grid within [lo, hi], in order, scaled:
\* one pass over the cells in row-major order
RECURSIVE InRangeScaled(_, _, _, _, _)
InRangeScaled(g, k, lo, hi, sf) ==
    LET cols == Len(g[1])
        e == g[((k - 1) \div cols) + 1][((k - 1) % cols) + 1]
    IN  IF k > Len(g) * cols THEN <<>>
        ELSE IF lo <= e /\ e <= hi
             THEN <<FMul(FromInt(e), sf)>> \o InRangeScaled(g, k + 1, lo, hi, sf)
             ELSE InRangeScaled(g, k + 1, lo, hi, sf)

StatisticsDone ==
    \/ pc = "ask_params"
    \/ pc = "crashed" /\ error = "ZeroDivisionError"

\* C6: the mean and standard deviation are computed over exactly the
\* elements e of the flattened array with min(range) <= e <= max(range),
\* order and multiplicity kept, each multiplied by scale_factor.
C6_StatisticsPopulation ==
    StatisticsDone =>
      LET rng == hdf.ds[sds].range
          lo == IF rng[1] <= rng[2] THEN rng[1] ELSE rng[2]
          hi == IF rng[1] <= rng[2] THEN rng[2] ELSE rng[1]
          expected == InRangeScaled(Raw, 1, lo, hi, hdf.ds[sds].scale_factor)
      IN  /\ valid_data = expected
          /\ pc # "crashed" =>
               /\ average = Mean(expected)
               /\ stdev = Std(expected)

\* both bounds kept, a neighbour dropped, range given as (max, min), scale
\* 0.002: the statistics are those of -0.2 and 10.0, mean 4.9 and standard
\* deviation 5.1000000000000005
C6_Witness ==
    /\ pc = "ask_params"
    /\ hdf.ds[sds].range = <<5000, 0 - 100>>
    /\ Raw = <<<<0 - 100, 5001, 5000>>>>
    /\ valid_data = <<Num(TRUE, <<6554, 9830, 6553, 1638>>, 0 - 55), FromInt(10)>>
    /\ average = Num(FALSE, <<6554, 9830, 6553, 1254>>, 0 - 50)
    /\ stdev = Num(FALSE, <<9831, 6553, 9830, 1305>>, 0 - 50)

\* C7: after classification every cell whose raw value lies outside the
\* valid range is masked and every cell inside it carries a code 0..5.
C7_MaskFollowsValidRange ==
    pc = "ask_save" =>
      \A c \in Cells(Raw) :
         IF Raw[c[1]][c[2]] < min_range \/ Raw[c[1]][c[2]] > max_range
         THEN data.mask[c[1]][c[2]]
         ELSE /\ ~data.mask[c[1]][c[2]]
              /\ data.values[c[1]][c[2]] \in {TableCodes[k] : k \in 1..6}

LastFour(s) == SubSeq(s, Len(s) - 3, Len(s))

\* C8: an image is written for a file only after Y/y at its show-map prompt
\* and then Y/y at its save-map prompt; the save-map prompt is shown only
\* after Y/y at show-map; the image is named the file name without its last
\* four characters plus ".png"; every image on disk belongs to a line already
\* taken whose name matched a pattern.
C8_SaveOnlyWhenConfirmed ==
    /\ Asked("save") => (Asked("map") /\ AnswerTo("map") \in YesAnswers)
    /\ written # {} =>
         /\ Asked("map") /\ AnswerTo("map") \in YesAnswers
         /\ Asked("save") /\ AnswerTo("save") \in YesAnswers
         /\ console[Len(console)].prompt = "save"
         /\ \E n \in written :
              /\ written = {n}
              /\ Len(n) = Len(FILE_NAME)
              /\ SubSeq(n, 1, Len(n) - 4) = SubSeq(FILE_NAME, 1, Len(FILE_NAME) - 4)
              /\ LastFour(n) = <<".", "p", "n", "g">>
    /\ written \subseteq pngFiles
    /\ Cardinality(pngFiles) <= idx
    /\ \A n \in pngFiles :
          \E k \in 1..idx :
             /\ SubSeq(n, 1, Len(n) - 4) = DropLast4(Strip(fileList[k]))
             /\ Has(fileList[k], "3", "K") \/ Has(fileList[k], "L", "2")

\* the second file's image has been written, the first file's has not
C8_Witness ==
    /\ pc = "loop"
    /\ idx = 2
    /\ fileList = <<Line(NameL2), Line(Name3K)>>
    /\ written = {<<"M","O","D","0","4","_","3","K",".","A","2","0","2","0","0","0","1",".","p","n","g">>}
    /\ pngFiles = written

\* 29.4 and 8.8
StatedDefaults ==
    <<Num(FALSE, <<9830, 6553, 9830, 1881>>, 0 - 48),
      Num(FALSE, <<6554, 9830, 6553, 1126>>, 0 - 49)>>

\* every cell of pm25 is a * (raw * scale_factor) + b
ConvertedWith(a, b) ==
    \A c \in Cells(Raw) :
        pm25[c[1]][c[2]] =
            FAdd(FMul(a, FMul(FromInt(Raw[c[1]][c[2]]), hdf.ds[sds].scale_factor)), b)

\* both texts typed are numbers, and pm25 is computed with them
ConvertedWithTyped(a, b) == a.ok /\ b.ok /\ ConvertedWith(a.v, b.v)

\* C9: the PM2.5 of a file is computed with (29.4, 8.8) unless Y/y was
\* answered at that file's custom-parameters prompt, and then with exactly
\* the two values typed for that file.
C9_ParametersPerFile ==
    pc = "ask_map" =>
      IF AnswerTo("parameters") \in YesAnswers
      THEN ConvertedWithTyped(ParseFloat(AnswerTo("slope")),
                              ParseFloat(AnswerTo("intercept")))
      ELSE ConvertedWith(StatedDefaults[1], StatedDefaults[2])

\* the second file is converted with the defaults: 29.4 * (1000 *
\* scale_factor) + 8.8 in its second cell
C9_Witness ==
    /\ idx = 2
    /\ pc = "ask_map"
    /\ AnswerTo("parameters") = <<"n">>
    /\ pm25[1][2] = FAdd(FMul(StatedDefaults[1], FMul(FromInt(1000), ModisScale)),
                         StatedDefaults[2])

PromptOrders ==
    {<<"process", "parameters", "map", "save">>,
     <<"process", "parameters", "slope", "intercept", "map", "save">>}

IsPrefix(s, t) == Len(s) <= Len(t) /\ s = SubSeq(t, 1, Len(s))

Classifying ==
    pc \in {"good", "moderate", "sensitive", "unhealthy", "very_unhealthy",
            "hazardous", "negative", "plot", "ask_save"}

\* C10: the process prompt skips the file only on exactly N or n; the
\* custom-parameters, show-map and save-map prompts act only on exactly Y
\* or y; the prompts of one file come in the order process,
\* custom-parameters, show-map, save-map, each at most once.
C10_PromptAnswers ==
    /\ \E order \in PromptOrders :
          IsPrefix([k \in 1..Len(console) |-> console[k].prompt], order)
    /\ Asked("process") =>
         IF AnswerTo("process") \in NoAnswers
         THEN Len(console) = 1 /\ printed = <<>> /\ pc \in {"loop", "done"}
         ELSE pc = "resolve" \/ printed # <<>>
    /\ Asked("parameters") =>
         IF AnswerTo("parameters") \in YesAnswers
         THEN pc = "enter_slope" \/ Asked("slope")
         ELSE ~Asked("slope") /\ pc # "enter_slope"
    /\ Asked("map") =>
         IF AnswerTo("map") \in YesAnswers
         THEN Classifying \/ Asked("save")
         ELSE ~Asked("save") /\ hits = <<>> /\ pc \in {"loop", "done"}
    /\ Asked("save") =>
         IF AnswerTo("save") \in YesAnswers
         THEN written # {}
         ELSE written = {}

\* empty text proceeds, "yes" declines custom parameters, y maps,
\* "yes" declines saving
C10_Witness ==
    /\ Len(console) = 4
    /\ AnswerTo("process") = <<>>
    /\ AnswerTo("parameters") = <<"y", "e", "s">>
    /\ AnswerTo("map") = <<"y">>
    /\ AnswerTo("save") = <<"y", "e", "s">>
    /\ written = {}

=============================================================================
